---- MODULE Spec2Model ----
(***************************************************************************)
(* Quackle::FixedLengthString (fixedstring.h) and Quackle::Rack (rack.h).  *)
(*                                                                         *)
(* A FixedLengthString is the pair (m_data, m_end): a char array of        *)
(* maxSize cells and a cursor, kept here as the offset m_end - m_data.     *)
(* assert() is modelled as compiled in: a false assertion ends the process *)
(* exactly as quackle_fls_abort() does.                                    *)
(***************************************************************************)
EXTENDS Integers, Sequences, FiniteSets, Bags, TLC

VARIABLES obj,      \* the two FixedLengthString objects "x" and "y"
          aborted,  \* the process was ended by abort() or a failed assert()
          steps,    \* operations executed so far
          last,     \* the operation executed last, its arguments, the objects before it
          rack,     \* Rack::m_tiles
          rlast     \* the Rack operations executed last and before it

vars == <<obj, aborted, steps, last, rack, rlast>>

-----------------------------------------------------------------------------
(* Program constants *)

maxSize == 40

NUL == 0

\* unsigned int has 32 bits, kept as two halves of 16 bits
HalfWord == 65536

QUACKLE_FIXEDSTRING_CAPACITY == 64

(* Bounds of the exploration *)

MaxSteps == 3

MaxShort == 2

NearCap == 2

MaxOver == 1

NumChars == 2

MaxRack == 3

MaxUsed == 2

Objs == {"x", "y"}

Other(t) == IF t = "x" THEN "y" ELSE "x"

Chars == 1..NumChars

Index == 0..(maxSize - 1)

\* the lengths handed to the constructors: short ones and those around maxSize
Lens == (0..MaxShort) \cup ((maxSize - NearCap)..(maxSize + MaxOver))

\* the caller's character arrays: s[i] for i < n is what memcpy(m_data, s, n) reads
Source(k) == [i \in 0..(maxSize + MaxOver) |-> 1 + ((i + k) % NumChars)]

\* a caller's NUL-terminated string of n characters
CString(k, n) == [i \in 0..(maxSize + MaxOver) |-> IF i < n THEN Source(k)[i] ELSE NUL]

-----------------------------------------------------------------------------
(* libc *)

memset0 == [i \in Index |-> NUL]

\* memcpy(dst + doff, src + soff, n)
memcpy(dst, doff, src, soff, n) ==
    [i \in DOMAIN dst |-> IF i >= doff /\ i < doff + n THEN src[soff + (i - doff)] ELSE dst[i]]

\* memmove(d + to, d + from, n) inside one array
memmove(d, to, from, n) ==
    [i \in DOMAIN d |-> IF i >= to /\ i < to + n THEN d[from + (i - to)] ELSE d[i]]

strlen(s) == CHOOSE i \in DOMAIN s : s[i] = NUL /\ \A j \in 0..(i - 1) : s[j] # NUL

-----------------------------------------------------------------------------
(* Outcomes of a member function: it returns, or the process is ended and   *)
(* the object is left as it was.                                            *)

Ok(b) == [abort |-> FALSE, b |-> b]

Fatal(b) == [abort |-> TRUE, b |-> b]

\* the logical content: the cells [begin(), end())
Content(b) == [i \in 1..b.m_end |-> b.m_data[i - 1]]

\* m_end == nullptr || m_end < m_data || m_end > m_data + maxSize
EndCorrupt(b) == b.m_end < 0 \/ b.m_end > maxSize

\* size_type(v): the conversion of a difference of pointers to unsigned int
size_type(v) == [hi |-> (v \div HalfWord) % HalfWord, lo |-> v % HalfWord]

\* the test of length(): len < 0 || len > maxSize || m_end < m_data || m_end > m_data + maxSize
LengthCorrupt(b) ==
    LET len == size_type(b.m_end)
    IN  len.hi > 0 \/ len.lo > maxSize \/ b.m_end < 0 \/ b.m_end > maxSize

\* length(): aborts when LengthCorrupt, and returns len otherwise (its high half is 0)
length(b) == size_type(b.m_end).lo

size(b) == length(b)

-----------------------------------------------------------------------------
(* Constructors *)

FixedLengthString == [m_data |-> memset0, m_end |-> 0]

FixedLengthString_sn_OffByOne(cur, s, n) ==
    IF ~(n < maxSize) THEN Fatal(cur)
    ELSE LET d == memcpy(memset0, 0, s, 0, n)
             e == IF n > 0 THEN n - 1 ELSE n
         IN  Ok([m_data |-> [d EXCEPT ![e] = NUL], m_end |-> e])

\* FixedLengthString(const char* s, size_type n); cur is what the slot held before
FixedLengthString_sn(cur, s, n) ==
    IF ~(n < maxSize) THEN Fatal(cur)
    ELSE LET d == memcpy(memset0, 0, s, 0, n)
         IN  Ok([m_data |-> [d EXCEPT ![n] = NUL], m_end |-> n])

RECURSIVE Fill(_, _, _)
\* for (i = 0; i < n; ++i) *m_end++ = c;
Fill(b, k, c) ==
    IF k = 0 THEN b
    ELSE Fill([m_data |-> [b.m_data EXCEPT ![b.m_end] = c], m_end |-> b.m_end + 1], k - 1, c)

\* FixedLengthString(size_type n, char c)
FixedLengthString_nc(cur, n, c) ==
    IF ~(n < maxSize) THEN Fatal(cur)
    ELSE LET b == Fill([m_data |-> memset0, m_end |-> 0], n, c)
         IN  Ok([b EXCEPT !.m_data[b.m_end] = NUL])

\* FixedLengthString(const char* s)
FixedLengthString_s(cur, s) ==
    LET sz == strlen(s)
    IN  IF ~(sz < maxSize) THEN Fatal(cur)
        ELSE LET d == memcpy(memset0, 0, s, 0, sz)
             IN  Ok([m_data |-> [d EXCEPT ![sz] = NUL], m_end |-> sz])

copy_ctor_Short(cur, s) ==
    IF LengthCorrupt(s) THEN Fatal(cur)
    ELSE LET len == size(s)
             n == IF len > 0 THEN len - 1 ELSE 0
             d == memcpy(memset0, 0, s.m_data, 0, n)
         IN  Ok([m_data |-> [d EXCEPT ![n] = NUL], m_end |-> n])

\* FixedLengthString(const FixedLengthString& s)
copy_ctor(cur, s) ==
    IF LengthCorrupt(s) THEN Fatal(cur)
    ELSE LET len == size(s)
         IN  IF len < 0 \/ len > maxSize \/ len > QUACKLE_FIXEDSTRING_CAPACITY THEN Fatal(cur)
             ELSE LET d == IF len > 0 THEN memcpy(memset0, 0, s.m_data, 0, len) ELSE memset0
                  IN  Ok([m_data |-> [d EXCEPT ![len] = NUL], m_end |-> len])

\* FixedLengthString(FixedLengthString&& s)
move_ctor(cur, s) ==
    IF LengthCorrupt(s) THEN Fatal(cur)
    ELSE LET sz == size(s)
             d == memcpy(memset0, 0, s.m_data, 0, sz)
         IN  Ok([m_data |-> [d EXCEPT ![sz] = NUL], m_end |-> sz])

\* operator=(const FixedLengthString& s), this != &s
assign(this, s) ==
    IF LengthCorrupt(s) THEN Fatal(this)
    ELSE LET len == size(s)
         IN  IF len < 0 \/ len > maxSize \/ len > QUACKLE_FIXEDSTRING_CAPACITY THEN Fatal(this)
             ELSE LET d == IF len > 0 THEN memcpy(memset0, 0, s.m_data, 0, len) ELSE memset0
                      r == [m_data |-> [d EXCEPT ![len] = NUL], m_end |-> len]
                  IN  IF EndCorrupt(r) THEN Fatal(r) ELSE Ok(r)

-----------------------------------------------------------------------------
(* Mutators *)

erase_NoShift(b, p) == Ok([b EXCEPT !.m_end = @ - 1])

\* erase(const iterator i), i = begin() + p
erase(b, p) ==
    Ok([m_data |-> memmove(b.m_data, p, p + 1, b.m_end - p), m_end |-> b.m_end - 1])

\* clear()
clear(b) == Ok([b EXCEPT !.m_end = 0])

PlusEqChar_WideAssert(b, c) ==
    IF LengthCorrupt(b) \/ ~(size(b) < maxSize) THEN Fatal(b)
    ELSE LET d == [b.m_data EXCEPT ![b.m_end] = c]
             e == b.m_end + 1
         IN  Ok([m_data |-> IF e \in Index THEN [d EXCEPT ![e] = NUL] ELSE d, m_end |-> e])

\* operator+=(char c)
PlusEqChar(b, c) ==
    IF LengthCorrupt(b) \/ ~(size(b) < maxSize - 1) THEN Fatal(b)
    ELSE LET r == [m_data |-> [b.m_data EXCEPT ![b.m_end] = c, ![b.m_end + 1] = NUL],
                   m_end |-> b.m_end + 1]
         IN  IF EndCorrupt(r) THEN Fatal(r) ELSE Ok(r)

\* operator+=(const FixedLengthString& s)
PlusEqStr(b, s) ==
    IF LengthCorrupt(s) THEN Fatal(b)
    ELSE LET sz == size(s)
         IN  IF LengthCorrupt(b) \/ ~(size(b) + sz < maxSize) THEN Fatal(b)
             ELSE LET d == memcpy(b.m_data, b.m_end, s.m_data, 0, sz)
                  IN  Ok([m_data |-> [d EXCEPT ![b.m_end + sz] = NUL], m_end |-> b.m_end + sz])

\* push_back(char c)
push_back(b, c) ==
    IF b.m_end < 0 \/ b.m_end >= maxSize THEN Fatal(b)
    ELSE IF EndCorrupt(b) THEN Fatal(b)
    ELSE PlusEqChar(b, c)

pop_back_Twice(b) ==
    IF LengthCorrupt(b) \/ ~(size(b) > 0) THEN Fatal(b)
    ELSE Ok([b EXCEPT !.m_end = IF @ > 1 THEN @ - 2 ELSE 0])

\* pop_back()
pop_back(b) ==
    IF LengthCorrupt(b) \/ ~(size(b) > 0) THEN Fatal(b)
    ELSE IF EndCorrupt(b) THEN Fatal(b)
    ELSE Ok([b EXCEPT !.m_end = @ - 1])

RECURSIVE CompareFrom(_, _, _, _)
CompareFrom(a, b, i, sz) ==
    IF i >= sz THEN 0
    ELSE IF a.m_data[i] < b.m_data[i] THEN -1
    ELSE IF a.m_data[i] > b.m_data[i] THEN 1
    ELSE CompareFrom(a, b, i + 1, sz)

\* compare(const FixedLengthString& s), both lengths valid
compare(a, b) ==
    LET size1 == size(a)
        size2 == size(b)
        sz == IF size1 < size2 THEN size1 ELSE size2
        c == CompareFrom(a, b, 0, sz)
    IN  IF c # 0 THEN c
        ELSE IF size1 > size2 THEN 1
        ELSE IF size2 > size1 THEN -1
        ELSE 0

-----------------------------------------------------------------------------
(* Rack.  LetterString is FixedLengthString; rack.cpp is modelled from the  *)
(* documented behaviour of load, unload and contains.                      *)

\* the letter code of the blank tile
Blank == 1

\* the letters on racks and in moves: the blank and two ordinary letters
Letters == {Blank, 2, 3}

SeqsUpTo(S, n) == UNION {[1..k -> S] : k \in 0..n}

\* the LetterString holding the letters of the sequence q
LetterString(q) ==
    FixedLengthString_sn(FixedLengthString, [i \in 0..(Len(q) - 1) |-> q[i + 1]], Len(q)).b

\* Rack::setTiles(tiles): m_tiles = tiles
setTiles(m_tiles, tiles) == assign(m_tiles, tiles)

\* Rack::Rack(const LetterString &tiles)
Rack(tiles) == setTiles(FixedLengthString, tiles).b

Min(S) == CHOOSE p \in S : \A q \in S : p <= q

RECURSIVE load_from(_, _, _)
load_from(r, tiles, i) ==
    IF r.abort \/ i >= length(tiles) THEN r
    ELSE load_from(PlusEqChar(r.b, tiles.m_data[i]), tiles, i + 1)

\* Rack::load(tiles): every letter of tiles is appended to m_tiles
load(m_tiles, tiles) == load_from(Ok(m_tiles), tiles, 0)

RECURSIVE unload_from(_, _, _, _)
unload_from(m_tiles, used, i, ret) ==
    IF i >= length(used) THEN [ret |-> ret, tiles |-> m_tiles]
    ELSE LET ms == {p \in 0..(m_tiles.m_end - 1) :
                        m_tiles.m_data[p] = used.m_data[i] \/ m_tiles.m_data[p] = Blank}
         IN  IF ms = {} THEN unload_from(m_tiles, used, i + 1, FALSE)
             ELSE unload_from(erase(m_tiles, Min(ms)).b, used, i + 1, ret)

unload_KeepsTiles(m_tiles, used) ==
    [ret |-> unload_from(m_tiles, used, 0, TRUE).ret, tiles |-> m_tiles]

\* Rack::unload(used): for each letter of used the leftmost tile that is the
\* letter or a blank is removed; the result tells whether every letter found one
unload(m_tiles, used) == unload_from(m_tiles, used, 0, TRUE)

RECURSIVE contains_from(_, _, _)
contains_from(left, used, i) ==
    IF i >= length(used) THEN TRUE
    ELSE LET exact == {p \in 0..(left.m_end - 1) : left.m_data[p] = used.m_data[i]}
             blanks == {p \in 0..(left.m_end - 1) : left.m_data[p] = Blank}
         IN  IF exact # {} THEN contains_from(erase(left, Min(exact)).b, used, i + 1)
             ELSE IF blanks # {} THEN contains_from(erase(left, Min(blanks)).b, used, i + 1)
             ELSE FALSE

RECURSIVE contains_from_BlankFirst(_, _, _)
contains_from_BlankFirst(left, used, i) ==
    IF i >= length(used) THEN TRUE
    ELSE LET exact == {p \in 0..(left.m_end - 1) : left.m_data[p] = used.m_data[i]}
             blanks == {p \in 0..(left.m_end - 1) : left.m_data[p] = Blank}
         IN  IF blanks # {} THEN contains_from_BlankFirst(erase(left, Min(blanks)).b, used, i + 1)
             ELSE IF exact # {} THEN contains_from_BlankFirst(erase(left, Min(exact)).b, used, i + 1)
             ELSE FALSE

contains_BlankFirst(m_tiles, used) == contains_from_BlankFirst(m_tiles, used, 0)

RECURSIVE contains_from_ExactOnly(_, _, _)
contains_from_ExactOnly(left, used, i) ==
    IF i >= length(used) THEN TRUE
    ELSE LET exact == {p \in 0..(left.m_end - 1) : left.m_data[p] = used.m_data[i]}
         IN  IF exact # {} THEN contains_from_ExactOnly(erase(left, Min(exact)).b, used, i + 1)
             ELSE FALSE

contains_ExactOnly(m_tiles, used) == contains_from_ExactOnly(m_tiles, used, 0)

\* Rack::contains(used): the letters of used in order, each taking the first
\* tile not yet taken that equals it, or else the first blank not yet taken
contains(m_tiles, used) == contains_from(m_tiles, used, 0)

-----------------------------------------------------------------------------
(* The FixedLengthString harness: x is constructed, then x and y are used.  *)

NoArg == [n |-> 0, c |-> 0, p |-> 0, k |-> 0]

NoRackOp == [op |-> "init", seq |-> <<>>, ret |-> TRUE, before |-> FixedLengthString,
             pop |-> "none", pseq |-> <<>>, pret |-> TRUE, pbefore |-> FixedLengthString]

Init ==
    /\ obj = [t \in Objs |-> FixedLengthString]
    /\ aborted = FALSE
    /\ steps = 0
    /\ last = [op |-> "init", t |-> "x", arg |-> NoArg, pre |-> [t \in Objs |-> FixedLengthString],
               prevOp |-> "none", prevT |-> "x"]
    /\ rack = FixedLengthString
    /\ rlast = NoRackOp

\* one call op(arg) on object t whose outcome is r
Do(op, t, r, arg) ==
    /\ ~aborted
    /\ steps < MaxSteps
    /\ obj' = [obj EXCEPT ![t] = r.b]
    /\ aborted' = r.abort
    /\ steps' = steps + 1
    /\ last' = [op |-> op, t |-> t, arg |-> arg, pre |-> obj,
                prevOp |-> last.op, prevT |-> last.t]
    /\ UNCHANGED <<rack, rlast>>

CtorSN ==
    \E k \in 0..(NumChars - 1), n \in Lens :
        /\ steps = 0
        /\ Do("ctor_sn", "x", FixedLengthString_sn(obj["x"], Source(k), n),
              [NoArg EXCEPT !.n = n, !.k = k])

CtorNC ==
    \E n \in Lens, c \in Chars :
        /\ steps = 0
        /\ Do("ctor_nc", "x", FixedLengthString_nc(obj["x"], n, c),
              [NoArg EXCEPT !.n = n, !.c = c])

CtorS ==
    \E k \in 0..(NumChars - 1), n \in Lens :
        /\ steps = 0
        /\ Do("ctor_s", "x", FixedLengthString_s(obj["x"], CString(k, n)),
              [NoArg EXCEPT !.n = n, !.k = k])

CopyCtor ==
    /\ Do("copy_ctor", "y", copy_ctor(obj["y"], obj["x"]), NoArg)

MoveCtor ==
    /\ Do("move_ctor", "y", move_ctor(obj["y"], obj["x"]), NoArg)

Assign ==
    \E t \in Objs, u \in Objs :
        /\ Do("assign", t, IF u = t THEN Ok(obj[t]) ELSE assign(obj[t], obj[u]),
              [NoArg EXCEPT !.k = IF u = t THEN 1 ELSE 0])

PushBack ==
    \E t \in Objs, c \in Chars :
        /\ Do("push_back", t, push_back(obj[t], c), [NoArg EXCEPT !.c = c])

OpPlusEqChar ==
    \E t \in Objs, c \in Chars :
        /\ Do("plus_eq_char", t, PlusEqChar(obj[t], c), [NoArg EXCEPT !.c = c])

OpPlusEqStr ==
    \E t \in Objs, u \in Objs :
        /\ Do("plus_eq_str", t, PlusEqStr(obj[t], obj[u]),
              [NoArg EXCEPT !.k = IF u = t THEN 1 ELSE 0])

\* the iterator handed to erase lies in [begin(), end()]
Erase ==
    \E t \in Objs :
        \E p \in 0..obj[t].m_end :
                /\ Do("erase", t, erase(obj[t], p), [NoArg EXCEPT !.p = p])

PopBack ==
    \E t \in Objs :
        /\ Do("pop_back", t, pop_back(obj[t]), NoArg)

Clear ==
    \E t \in Objs :
        /\ Do("clear", t, clear(obj[t]), NoArg)

Next ==
    \/ CtorSN
    \/ CtorNC
    \/ CtorS
    \/ CopyCtor
    \/ MoveCtor
    \/ Assign
    \/ PushBack
    \/ OpPlusEqChar
    \/ OpPlusEqStr
    \/ Erase
    \/ PopBack
    \/ Clear

Spec == Init /\ [][Next]_vars

-----------------------------------------------------------------------------
(* The Rack harness: a rack is constructed from some tiles; it is asked     *)
(* whether it contains a sequence, or is loaded, or is unloaded and then    *)
(* loaded.                                                                 *)

RackInit ==
    /\ obj = [t \in Objs |-> FixedLengthString]
    /\ aborted = FALSE
    /\ steps = 0
    /\ last = [op |-> "init", t |-> "x", arg |-> NoArg, pre |-> [t \in Objs |-> FixedLengthString],
               prevOp |-> "none", prevT |-> "x"]
    /\ rack \in {Rack(LetterString(q)) : q \in SeqsUpTo(Letters, MaxRack)}
    /\ rlast = NoRackOp

RackDo(op, q, ret, r) ==
    /\ ~aborted
    /\ rack' = r.b
    /\ aborted' = r.abort
    /\ rlast' = [op |-> op, seq |-> q, ret |-> ret, before |-> rack,
                 pop |-> rlast.op, pseq |-> rlast.seq, pret |-> rlast.ret,
                 pbefore |-> rlast.before]
    /\ UNCHANGED <<obj, steps, last>>

Contains ==
    \E q \in SeqsUpTo(Letters, MaxUsed) :
        /\ rlast.op = "init"
        /\ RackDo("contains", q, contains(rack, LetterString(q)), Ok(rack))

Unload ==
    \E q \in SeqsUpTo(Letters, MaxUsed) :
        /\ rlast.op = "init"
        /\ LET u == unload(rack, LetterString(q))
           IN  RackDo("unload", q, u.ret, Ok(u.tiles))

Load ==
    \E q \in SeqsUpTo(Letters, MaxUsed) :
        /\ rlast.op \in {"init", "unload"}
        /\ RackDo("load", q, TRUE, load(rack, LetterString(q)))

RackNext ==
    \/ Contains
    \/ Unload
    \/ Load

RackSpec == RackInit /\ [][RackNext]_vars

-----------------------------------------------------------------------------
(* Properties of FixedLengthString *)

CtorOps == {"ctor_sn", "ctor_nc", "ctor_s"}

CopyOps == {"copy_ctor", "move_ctor", "assign"}

MutOps == {"push_back", "plus_eq_char", "plus_eq_str", "erase", "pop_back", "clear"}

\* the object the last call acted on, now and before the call
Cur == obj[last.t]

Pre == last.pre[last.t]

\* the last call was made inside its precondition
InPrecondition ==
    \/ last.op \in (CtorOps \cup CopyOps \cup {"push_back", "plus_eq_char", "plus_eq_str",
                                                "pop_back", "clear"})
    \/ last.op = "erase" /\ last.arg.p < Pre.m_end

\* C1 (invariant I1): in every reachable state the logical length of every
\* FixedLengthString lies in 0..maxSize-1, that is the cursor m_end points
\* inside m_data; a call outside its precondition ends the process and never
\* leaves a length outside this range.
C1_LengthInRange == \A t \in Objs : obj[t].m_end \in 0..(maxSize - 1)

\* C2 (invariant I2): after every public operation called inside its
\* precondition that returns, the cell at index length() of the object holds
\* the sentinel NUL.
C2_SentinelAtLength ==
    (last.op # "init" /\ InPrecondition /\ ~aborted /\ Cur.m_end \in Index)
        => Cur.m_data[Cur.m_end] = NUL

\* C3 (construction boundary): construction from (s, n) or (n, c) with
\* n < maxSize returns a buffer of length exactly n holding the first n
\* characters of s (n copies of c); with n >= maxSize it ends the process and
\* no buffer is produced.
C3_ConstructionBoundary ==
    (last.op \in {"ctor_sn", "ctor_nc"}) =>
        LET n == last.arg.n
        IN  IF n < maxSize
            THEN /\ ~aborted
                 /\ ~LengthCorrupt(Cur)
                 /\ length(Cur) = n
                 /\ Content(Cur) = [i \in 1..n |-> IF last.op = "ctor_sn"
                                                   THEN Source(last.arg.k)[i - 1]
                                                   ELSE last.arg.c]
            ELSE aborted /\ obj = last.pre

C3_Witness ==
    /\ last.op = "ctor_sn"
    /\ last.arg.n = maxSize
    /\ aborted

\* C4 (copy/move independence): copy construction, move construction and copy
\* assignment from a valid source leave the destination with the content the
\* source had before, and every later mutation of one of the two objects
\* leaves the content and the length of the other as they were.
C4_CopyIndependence ==
    /\ (last.op \in CopyOps /\ last.arg.k = 0 /\ ~LengthCorrupt(last.pre[Other(last.t)])) =>
           /\ ~aborted
           /\ Content(Cur) = Content(last.pre[Other(last.t)])
           /\ Cur.m_end = last.pre[Other(last.t)].m_end
           /\ obj[Other(last.t)] = last.pre[Other(last.t)]
    /\ (last.op \in MutOps) =>
           /\ obj[Other(last.t)].m_end = last.pre[Other(last.t)].m_end
           /\ obj[Other(last.t)].m_data = last.pre[Other(last.t)].m_data

C4_Witness ==
    /\ last.op \in MutOps
    /\ last.prevOp \in CopyOps
    /\ ~aborted
    /\ obj["x"].m_end > 0
    /\ obj["y"].m_end > 0
    /\ Content(obj["x"]) # Content(obj["y"])

\* C5 (push_back/pop_back round trip): x.push_back(c) on a buffer with
\* length() < maxSize - 1 followed by x.pop_back() leaves x equal to what it
\* was before the two calls: compare() is 0, the length and the content cells
\* are the same.
C5_PushPopRoundTrip ==
    [][(/\ last.op = "push_back"
        /\ ~aborted
        /\ last'.op = "pop_back"
        /\ last'.t = last.t)
       => (/\ ~aborted'
           /\ compare(obj'[last.t], Pre) = 0
           /\ obj'[last.t].m_end = Pre.m_end
           /\ Content(obj'[last.t]) = Content(Pre))]_vars

C5_Witness ==
    /\ last.op = "pop_back"
    /\ last.prevOp = "push_back"
    /\ last.prevT = last.t
    /\ ~aborted
    /\ Cur.m_end > 0

\* C9 (single-character append guard): push_back(c) and operator+=(c) called
\* with length() < maxSize - 1 append c, advance the length by one and write
\* the sentinel at the new length; called with length() >= maxSize - 1 they
\* end the process, store nothing and do not move the cursor.
C9_AppendGuard ==
    (last.op \in {"push_back", "plus_eq_char"} /\ ~LengthCorrupt(Pre)) =>
        IF length(Pre) < maxSize - 1
        THEN /\ ~aborted
             /\ Content(Cur) = Append(Content(Pre), last.arg.c)
             /\ Cur.m_end = Pre.m_end + 1
             /\ Cur.m_data[Cur.m_end] = NUL
        ELSE /\ aborted
             /\ Cur.m_data = Pre.m_data
             /\ Cur.m_end = Pre.m_end

C9_Witness ==
    /\ last.op = "push_back"
    /\ Pre.m_end = maxSize - 1
    /\ aborted

\* C10 (erase removes exactly one element): erase(begin() + p) on a buffer of
\* length L >= 1 with 0 <= p < L leaves length L - 1 and the old content
\* without its p-th character, the others in their order.
C10_EraseOne ==
    (last.op = "erase" /\ Pre.m_end >= 1 /\ last.arg.p < Pre.m_end) =>
        /\ ~aborted
        /\ Cur.m_end = Pre.m_end - 1
        /\ Content(Cur) = [i \in 1..(Pre.m_end - 1) |->
                              IF i <= last.arg.p THEN Content(Pre)[i] ELSE Content(Pre)[i + 1]]

C10_Witness ==
    /\ last.op = "erase"
    /\ Pre.m_end >= maxSize - 2
    /\ last.arg.p > 0
    /\ last.arg.p < Pre.m_end - 1
    /\ Content(Pre)[last.arg.p] # Content(Pre)[last.arg.p + 1]
    /\ ~aborted

-----------------------------------------------------------------------------
(* Properties of Rack *)

\* the multiset of the tiles of a LetterString
TileBag(b) == LET c == Content(b) IN [l \in {c[i] : i \in 1..b.m_end} |-> Cardinality({i \in 1..b.m_end : c[i] = l})]

BlankCount(b) == Cardinality({i \in 0..(b.m_end - 1) : b.m_data[i] = Blank})

\* some assignment gives every requested letter a tile of its own that equals it or is a blank
AssignmentExists(tiles, q) ==
    \E f \in [1..Len(q) -> 1..Len(tiles)] :
        /\ \A i, j \in 1..Len(q) : i # j => f[i] # f[j]
        /\ \A i \in 1..Len(q) : tiles[f[i]] = q[i] \/ tiles[f[i]] = Blank

UnloadThenLoad ==
    /\ rlast.op = "load"
    /\ rlast.pop = "unload"
    /\ rlast.pret
    /\ rlast.seq = rlast.pseq
    /\ ~aborted

C7_ContainsIsMatching ==
    (rlast.op = "contains") =>
        (rlast.ret <=> AssignmentExists(Content(rlast.before), rlast.seq))

C7_Witness ==
    /\ rlast.op = "contains"
    /\ Content(rlast.before) = <<2, Blank>>
    /\ rlast.seq = <<2, 2>>
    /\ rlast.ret

====
